---- MODULE Spec2Model ----
(***************************************************************************)
(* The AST layer of go-plus: the StrictFields metaclass that derives each  *)
(* node kind's slots and generated constructor from its annotations        *)
(* (goplus/utils.py), and the Node runtime: construction from a token,     *)
(* clone and the cycle-guarded dump (goplus/ast.py).                       *)
(*                                                                         *)
(* Python values are tagged tuples, so that values of different Python     *)
(* types are always comparable:                                            *)
(*   <<"unset">>        a slot that was never assigned                     *)
(*   <<"none">>         None                                               *)
(*   <<"bool", b>>      True / False                                       *)
(*   <<"int", n>>  <<"str", s>>  <<"bytes", s>>   plain data               *)
(*   <<"float", s>>  <<"complex", s>>   a float / complex by its text      *)
(*   <<"tag", t>>       a TokenType member                                 *)
(*   <<"T", t>>         an inferred type (goplus.types.Type)               *)
(*   <<"opt", s>>       a ChannelOptions / FunctionOptions flag value      *)
(*   <<"ref", i>>       the node object at heap[i]                         *)
(*   <<"list", s>>      a list of values                                   *)
(*   <<"map", s>>       a dict, as the sequence of its <<key, value>>      *)
(*   <<"method", m>>    a bound method                                     *)
(***************************************************************************)
EXTENDS Integers, Sequences, FiniteSets, TLC

VARIABLES heap, last

vars == <<heap, last>>

\* ---------------------------------------------------------------- bounds
MaxNodes == 2
MaxList == 1

\* ---------------------------------------------------------------- values
Unset == <<"unset">>
None == <<"none">>
False == <<"bool", FALSE>>
True == <<"bool", TRUE>>
EmptyList == <<"list", <<>> >>
EmptyDict == <<"map", <<>> >>
EmptyTuple == <<"tuple", <<>> >>
Ref(i) == <<"ref", i>>
IsRef(v) == v[1] = "ref"
IsList(v) == v[1] = "list"

\* the result of a call: exc is "" when it returned val, else the exception
Ok(v) == [exc |-> "", val |-> v]
Raise(e) == [exc |-> e, val |-> None]

\* ------------------------------------------------------- the declarations
\* the union aliases of ast.py; "List[InitSpec]" and "List[TypeSpec]" are the
\* two list shapes the Statement union admits
Type ==
  {"MapType", "ArrayType", "SliceType", "NamedType", "StructType",
   "ChannelType", "PointerType", "FunctionType", "InterfaceType"}
LiteralType ==
  {"MapType", "ArrayType", "NamedType", "SliceType", "StructType", "VarArrayType"}
Constant == {"Int", "Bool", "Rune", "Float", "String", "Complex"}
Operand ==
  {"Name", "Lambda", "Composite", "Conversion", "Expression"} \cup Constant
Modifier == {"Index", "Slice", "Selector", "Arguments", "Assertion"}
SimpleStatement ==
  {"Send", "Empty", "IncDec", "InitSpec", "Assignment", "Expression"}
Statement ==
  {"Go", "If", "For", "Goto", "Break", "Defer", "Label", "Switch", "Select",
   "Return", "ForRange", "Continue", "TypeSwitch", "Fallthrough",
   "List[InitSpec]", "List[TypeSpec]", "CompoundStatement"} \cup SimpleStatement

ValueKinds ==
  {"Int", "Bool", "Name", "Rune", "Float", "String", "Complex", "Operator"}
AllKinds ==
  ValueKinds \cup Type \cup LiteralType \cup Operand \cup Modifier
  \cup (Statement \ {"List[InitSpec]", "List[TypeSpec]"})
  \cup {"StructField", "FunctionArgument", "FunctionSignature",
        "InterfaceMethod", "Primary", "LiteralValue", "Element", "LinkSpec",
        "TypeSpec", "Function", "ImportC", "ImportHere", "ImportSpec",
        "Package", "SelectCase", "SelectReceive", "SwitchCase",
        "TypeSwitchCase"}

\* an annotation as _make_init sees it: origin is its __origin__ ("" when it
\* has none), cls the annotation itself when it is a plain class ("'fwd'" for
\* a string forward reference), args the alternatives it admits
Plain(c) == [origin |-> "", cls |-> c, args |-> {c}]
Fwd(alts) == [origin |-> "", cls |-> "'fwd'", args |-> alts]
ListOf(alts) == [origin |-> "list", cls |-> "", args |-> alts]
UnionOf(alts) == [origin |-> "Union", cls |-> "", args |-> alts]

\* the annotated fields of each class body, in declaration order
annotations(c) ==
  CASE c = "Node" ->
        <<
          <<"vt", UnionOf({"NoneType", "T"})>>,
          <<"row", Plain("int")>>,
          <<"col", Plain("int")>>,
          <<"file", Plain("str")>> >>
    [] c = "Value" ->
        <<
          <<"kind", Plain("TokenType")>>,
          <<"value", Plain("TokenValue")>> >>
    [] c = "Int" ->
        <<>>
    [] c = "Bool" ->
        <<>>
    [] c = "Name" ->
        <<>>
    [] c = "Rune" ->
        <<>>
    [] c = "Float" ->
        <<>>
    [] c = "String" ->
        <<>>
    [] c = "Complex" ->
        <<>>
    [] c = "Operator" ->
        <<>>
    [] c = "MapType" ->
        <<
          <<"key", Fwd(Type)>>,
          <<"elem", Fwd(Type)>> >>
    [] c = "ArrayType" ->
        <<
          <<"len", Fwd({"Expression"})>>,
          <<"elem", Fwd(Type)>> >>
    [] c = "SliceType" ->
        <<
          <<"elem", Fwd(Type)>> >>
    [] c = "NamedType" ->
        <<
          <<"name", Plain("Name")>>,
          <<"package", UnionOf({"Name", "NoneType"})>> >>
    [] c = "StructType" ->
        <<
          <<"fields", ListOf({"StructField"})>> >>
    [] c = "StructField" ->
        <<
          <<"type", Fwd(Type)>>,
          <<"name", UnionOf({"Name", "NoneType"})>>,
          <<"tags", UnionOf({"NoneType", "String"})>> >>
    [] c = "ChannelType" ->
        <<
          <<"dir", Plain("ChannelOptions")>>,
          <<"elem", Fwd(Type)>> >>
    [] c = "PointerType" ->
        <<
          <<"base", Fwd(Type)>> >>
    [] c = "FunctionType" ->
        <<
          <<"type", Fwd({"FunctionSignature"})>> >>
    [] c = "FunctionArgument" ->
        <<
          <<"name", UnionOf({"Name", "NoneType"})>>,
          <<"type", Fwd(Type)>> >>
    [] c = "FunctionSignature" ->
        <<
          <<"var", Plain("bool")>>,
          <<"args", ListOf({"FunctionArgument"})>>,
          <<"rets", ListOf({"FunctionArgument"})>> >>
    [] c = "InterfaceType" ->
        <<
          <<"decls", ListOf({"InterfaceMethod", "NamedType"})>> >>
    [] c = "InterfaceMethod" ->
        <<
          <<"name", Plain("Name")>>,
          <<"type", Plain("FunctionSignature")>> >>
    [] c = "Primary" ->
        <<
          <<"val", Fwd(Operand)>>,
          <<"mods", ListOf(Modifier)>> >>
    [] c = "Conversion" ->
        <<
          <<"type", UnionOf(Type)>>,
          <<"value", Fwd({"Expression"})>> >>
    [] c = "Expression" ->
        <<
          <<"op", UnionOf({"NoneType", "Operator"})>>,
          <<"left", UnionOf({"Expression", "Primary"})>>,
          <<"right", UnionOf({"Expression", "NoneType"})>> >>
    [] c = "Lambda" ->
        <<
          <<"body", Fwd({"CompoundStatement"})>>,
          <<"signature", Plain("FunctionSignature")>> >>
    [] c = "VarArrayType" ->
        <<
          <<"elem", UnionOf(Type)>> >>
    [] c = "LiteralValue" ->
        <<
          <<"items", ListOf({"Element"})>> >>
    [] c = "Element" ->
        <<
          <<"key", UnionOf({"Expression", "LiteralValue", "NoneType"})>>,
          <<"value", UnionOf({"Expression", "LiteralValue"})>> >>
    [] c = "Composite" ->
        <<
          <<"type", UnionOf(LiteralType \cup {"NoneType"})>>,
          <<"value", Plain("LiteralValue")>> >>
    [] c = "Index" ->
        <<
          <<"expr", Plain("Expression")>> >>
    [] c = "Slice" ->
        <<
          <<"pos", UnionOf({"Expression", "NoneType"})>>,
          <<"len", UnionOf({"Expression", "NoneType"})>>,
          <<"cap", UnionOf({"Expression", "NoneType", "bool"})>> >>
    [] c = "Selector" ->
        <<
          <<"attr", Plain("Name")>> >>
    [] c = "Arguments" ->
        <<
          <<"var", Plain("bool")>>,
          <<"args", ListOf(Type \cup {"Expression"})>> >>
    [] c = "Assertion" ->
        <<
          <<"type", UnionOf(Type \cup {"NoneType"})>> >>
    [] c = "LinkSpec" ->
        <<
          <<"name", Plain("str")>>,
          <<"link", Plain("str")>> >>
    [] c = "InitSpec" ->
        <<
          <<"iota", UnionOf({"NoneType", "int"})>>,
          <<"type", UnionOf(Type \cup {"NoneType"})>>,
          <<"names", ListOf({"Name"})>>,
          <<"values", ListOf({"Expression"})>>,
          <<"consts", Plain("bool")>> >>
    [] c = "TypeSpec" ->
        <<
          <<"name", Plain("Name")>>,
          <<"type", Fwd(Type)>>,
          <<"alias", Plain("bool")>> >>
    [] c = "Function" ->
        <<
          <<"name", Plain("Name")>>,
          <<"opts", Plain("FunctionOptions")>>,
          <<"type", Plain("FunctionSignature")>>,
          <<"recv", UnionOf({"FunctionArgument", "NoneType"})>>,
          <<"body", UnionOf({"CompoundStatement", "NoneType"})>> >>
    [] c = "ImportC" ->
        <<
          <<"src", Plain("str")>> >>
    [] c = "ImportHere" ->
        <<>>
    [] c = "ImportSpec" ->
        <<
          <<"path", Plain("String")>>,
          <<"alias", UnionOf({"ImportC", "ImportHere", "Name", "NoneType"})>> >>
    [] c = "Package" ->
        <<
          <<"name", Plain("Name")>>,
          <<"vars", ListOf({"InitSpec"})>>,
          <<"links", ListOf({"LinkSpec"})>>,
          <<"funcs", ListOf({"Function"})>>,
          <<"types", ListOf({"TypeSpec"})>>,
          <<"consts", ListOf({"InitSpec"})>>,
          <<"imports", ListOf({"ImportSpec"})>> >>
    [] c = "Go" ->
        <<
          <<"expr", Plain("Expression")>> >>
    [] c = "If" ->
        <<
          <<"cond", Plain("Expression")>>,
          <<"init", Fwd(SimpleStatement)>>,
          <<"body", Fwd({"CompoundStatement"})>>,
          <<"branch", UnionOf({"CompoundStatement", "If", "NoneType"})>> >>
    [] c = "For" ->
        <<
          <<"cond", UnionOf({"Expression", "NoneType"})>>,
          <<"init", UnionOf(SimpleStatement \cup {"NoneType"})>>,
          <<"post", UnionOf(SimpleStatement \cup {"NoneType"})>>,
          <<"body", Fwd({"CompoundStatement"})>> >>
    [] c = "ForRange" ->
        <<
          <<"svd", Plain("bool")>>,
          <<"expr", Plain("Expression")>>,
          <<"body", Fwd({"CompoundStatement"})>>,
          <<"terms", ListOf({"Expression", "Name"})>> >>
    [] c = "Defer" ->
        <<
          <<"expr", Plain("Expression")>> >>
    [] c = "Select" ->
        <<
          <<"cases", ListOf({"SelectCase"})>> >>
    [] c = "SelectCase" ->
        <<
          <<"body", ListOf(Statement)>>,
          <<"expr", UnionOf({"NoneType", "SelectReceive", "Send"})>> >>
    [] c = "SelectReceive" ->
        <<
          <<"svd", Plain("bool")>>,
          <<"value", Plain("Expression")>>,
          <<"terms", ListOf({"Expression", "Name"})>> >>
    [] c = "Switch" ->
        <<
          <<"expr", UnionOf({"Expression", "NoneType"})>>,
          <<"init", UnionOf(SimpleStatement \cup {"NoneType"})>>,
          <<"cases", ListOf({"SwitchCase"})>> >>
    [] c = "SwitchCase" ->
        <<
          <<"vals", ListOf({"Expression"})>>,
          <<"body", ListOf(Statement)>> >>
    [] c = "TypeSwitch" ->
        <<
          <<"name", UnionOf({"Name", "NoneType"})>>,
          <<"type", UnionOf({"NoneType", "Primary"})>>,
          <<"init", UnionOf(SimpleStatement \cup {"NoneType"})>>,
          <<"cases", ListOf({"TypeSwitchCase"})>> >>
    [] c = "TypeSwitchCase" ->
        <<
          <<"body", ListOf(Statement)>>,
          <<"types", ListOf(Type)>> >>
    [] c = "Goto" ->
        <<
          <<"label", Plain("Name")>> >>
    [] c = "Label" ->
        <<
          <<"name", Plain("Name")>>,
          <<"body", Fwd(Statement)>> >>
    [] c = "Return" ->
        <<
          <<"vals", ListOf({"Expression"})>> >>
    [] c = "Break" ->
        <<
          <<"label", UnionOf({"Name", "NoneType"})>> >>
    [] c = "Continue" ->
        <<
          <<"label", UnionOf({"Name", "NoneType"})>> >>
    [] c = "Fallthrough" ->
        <<>>
    [] c = "Send" ->
        <<
          <<"chan", Plain("Expression")>>,
          <<"expr", Plain("Expression")>> >>
    [] c = "Empty" ->
        <<>>
    [] c = "IncDec" ->
        <<
          <<"incr", Plain("bool")>>,
          <<"expr", Plain("Expression")>> >>
    [] c = "Assignment" ->
        <<
          <<"type", Plain("Operator")>>,
          <<"lval", ListOf({"Expression"})>>,
          <<"rval", ListOf({"Expression"})>> >>
    [] c = "CompoundStatement" ->
        <<
          <<"body", ListOf(Statement)>> >>

\* class Node is the root; the Value kinds derive from Value
Bases(c) ==
  IF c = "Node" THEN <<>> ELSE IF c \in ValueKinds THEN <<"Value">> ELSE <<"Node">>

\* __noinit__ of the class body
noinit(c) == IF c = "Node" THEN {"row", "col", "file"} ELSE {}

\* the classes whose body defines __init__ by hand
HandInit == {"Node", "Value", "ImportC", "ImportHere"}

\* class attributes set in the class body: the expected token tag of a Value kind
ClassAttrs(c) == IF c \in ValueKinds THEN [kind |-> <<"tag", c>>] ELSE <<>>

\* the methods an instance of c has
Methods(c) ==
  {"clone", "_build", "_build_val", "_build_list", "_build_dict", "__init__", "__repr__"}
  \cup (IF c = "Expression" THEN {"is_call"} ELSE {})

\* --------------------------------------------------- utils.py: StrictFields
_real_type(vtype) == IF vtype.origin # "" THEN vtype.origin ELSE vtype.cls

\* the stores the initializer of one field adds to the generated constructor:
\* none when the field gets no default
_make_init_none_first(name, vtype, real) ==
  IF real = "bool" THEN << <<name, False>> >>
  ELSE IF real = "dict" THEN << <<name, EmptyDict>> >>
  ELSE IF real = "list" THEN << <<name, EmptyList>> >>
  ELSE IF real = "tuple" THEN << <<name, EmptyTuple>> >>
  ELSE IF vtype.origin = "" THEN <<>>
  ELSE IF vtype.origin # "Union" THEN <<>>
  ELSE IF "NoneType" \in vtype.args THEN << <<name, None>> >>
  ELSE IF "bool" \in vtype.args THEN << <<name, False>> >>
  ELSE <<>>

\* a variant without the branch for lists: a list field gets no store
_make_init_list_unset(name, vtype, real) ==
  IF real = "bool" THEN << <<name, False>> >>
  ELSE IF real = "dict" THEN << <<name, EmptyDict>> >>
  ELSE IF real = "tuple" THEN << <<name, EmptyTuple>> >>
  ELSE IF vtype.origin = "" THEN <<>>
  ELSE IF vtype.origin # "Union" THEN <<>>
  ELSE IF "bool" \in vtype.args THEN << <<name, False>> >>
  ELSE IF "NoneType" \in vtype.args THEN << <<name, None>> >>
  ELSE <<>>

_make_init(name, vtype, real) ==
  IF real = "bool" THEN << <<name, False>> >>
  ELSE IF real = "dict" THEN << <<name, EmptyDict>> >>
  ELSE IF real = "list" THEN << <<name, EmptyList>> >>
  ELSE IF real = "tuple" THEN << <<name, EmptyTuple>> >>
  ELSE IF vtype.origin = "" THEN <<>>
  ELSE IF vtype.origin # "Union" THEN <<>>
  ELSE IF "bool" \in vtype.args THEN << <<name, False>> >>
  ELSE IF "NoneType" \in vtype.args THEN << <<name, None>> >>
  ELSE <<>>

RECURSIVE Instrs(_, _, _)
Instrs(fields, skip, i) ==
  IF i > Len(fields) THEN <<>>
  ELSE (IF fields[i][1] \in skip THEN <<>>
        ELSE _make_init(fields[i][1], fields[i][2], _real_type(fields[i][2])))
       \o Instrs(fields, skip, i + 1)

\* what the metaclass makes of a class body: its __slots__, the stores of the
\* generated __init__ (instrs), and whether an __init__ was generated at all
_build_attrs(c) ==
  LET fields == annotations(c)
      instrs == Instrs(fields, noinit(c), 1)
  IN  [slots |-> {fields[i][1] : i \in DOMAIN fields},
       instrs |-> instrs,
       compiled |-> instrs # <<>>]

\* the classes of ast.py, and what the metaclass made of each when the module
\* was imported
Classes == AllKinds \cup {"Node", "Value"}
Namespace == [c \in Classes |-> _build_attrs(c)]

\* every slot of an instance of c: the __slots__ of c and of its bases
RECURSIVE SlotsOf(_)
SlotsOf(c) ==
  Namespace[c].slots \cup (IF Bases(c) = <<>> THEN {} ELSE SlotsOf(Bases(c)[1]))
AllSlots == [c \in Classes |-> SlotsOf(c)]

\* ------------------------------------------------------- attribute access
\* object.__new__ of a class with __slots__: every slot empty
NewObject(c) == [kind |-> c, slots |-> [n \in AllSlots[c] |-> Unset]]

\* a variant that reads an empty slot as None
getattr_default_none(self, name) ==
  IF name \in DOMAIN ClassAttrs(self.kind) THEN Ok(ClassAttrs(self.kind)[name])
  ELSE IF name \in Methods(self.kind) THEN Ok(<<"method", name>>)
  ELSE IF name \in DOMAIN self.slots
  THEN Ok(IF self.slots[name] # Unset THEN self.slots[name] ELSE None)
  ELSE Raise("AttributeError")

getattr(self, name) ==
  IF name \in DOMAIN ClassAttrs(self.kind) THEN Ok(ClassAttrs(self.kind)[name])
  ELSE IF name \in Methods(self.kind) THEN Ok(<<"method", name>>)
  ELSE IF name \in DOMAIN self.slots /\ self.slots[name] # Unset THEN Ok(self.slots[name])
  ELSE Raise("AttributeError")

\* a variant that lets an instance grow a __dict__ entry for an unknown name
setattr_dict(self, name, v) ==
  IF name \in DOMAIN ClassAttrs(self.kind) \cup Methods(self.kind)
  THEN Raise("AttributeError")
  ELSE Ok([self EXCEPT !.slots = [n \in DOMAIN self.slots \cup {name} |->
                                    IF n = name THEN v ELSE self.slots[n]]])

setattr(self, name, v) ==
  IF name \in DOMAIN ClassAttrs(self.kind) \cup Methods(self.kind)
  THEN Raise("AttributeError")
  ELSE IF name \in DOMAIN self.slots
  THEN Ok([self EXCEPT !.slots[name] = v])
  ELSE Raise("AttributeError")

\* ---------------------------------------------------------- construction
\* tokenizer.Token(col, row, file, kind, value), as Node.clone calls it
Token(col, row, file, kind, value) ==
  [row |-> row, col |-> col, file |-> file, kind |-> kind, value |-> value]

RECURSIVE Stores(_, _, _)
Stores(self, instrs, i) ==
  IF i > Len(instrs) THEN self
  ELSE Stores([self EXCEPT !.slots[instrs[i][1]] = instrs[i][2]], instrs, i + 1)

\* Node.__init__ as written: the position of the token
Node__init__(self, tk) ==
  Ok([self EXCEPT !.slots["row"] = tk.row, !.slots["col"] = tk.col,
                  !.slots["file"] = tk.file])

RECURSIVE ClassInit(_, _, _), Written(_, _, _)

\* a variant whose constructors store what they store and assert nothing
Written_unchecked(c, self, tk) ==
  CASE c = "Node" -> Node__init__(self, tk)
    [] c = "Value" ->
         LET r1 == ClassInit("Node", self, tk)
         IN  IF r1.exc # "" THEN r1 ELSE setattr(r1.val, "value", tk.value)
    [] c = "ImportC" ->
         LET r1 == setattr(self, "src", tk.value)
         IN  IF r1.exc # "" THEN r1 ELSE ClassInit("Node", r1.val, tk)
    [] c = "ImportHere" -> ClassInit("Node", self, tk)

\* the __init__ the class body of c defines
Written(c, self, tk) ==
  CASE c = "Node" -> Node__init__(self, tk)
    [] c = "Value" ->
         LET r1 == ClassInit("Node", self, tk)
             r2 == setattr(r1.val, "value", tk.value)
             k  == getattr(r2.val, "kind")
         IN  IF r1.exc # "" THEN r1
             ELSE IF r2.exc # "" THEN r2
             ELSE IF k.exc # "" THEN k
             ELSE IF tk.kind # k.val THEN Raise("AssertionError")
             ELSE r2
    [] c = "ImportC" ->
         LET r1 == setattr(self, "src", tk.value)
             r2 == ClassInit("Node", r1.val, tk)
         IN  IF r1.exc # "" THEN r1
             ELSE IF r2.exc # "" THEN r2
             ELSE IF tk.kind # <<"tag", "Comments">> THEN Raise("AssertionError")
             ELSE r2
    [] c = "ImportHere" ->
         LET r1 == ClassInit("Node", self, tk)
         IN  IF r1.exc # "" THEN r1
             ELSE IF ~(tk.kind = <<"tag", "Operator">> /\ tk.value = <<"str", ".">>)
             THEN Raise("AssertionError")
             ELSE r1

\* c.__init__: the generated constructor (the stores, then the original
\* __init__: the written one, else that of the first base), else the written
\* one, else the inherited one
ClassInit(c, self, tk) ==
  LET ba == Namespace[c]
      s1 == IF ba.compiled THEN Stores(self, ba.instrs, 1) ELSE self
  IN  IF c \in HandInit THEN Written(c, s1, tk)
      ELSE IF Bases(c) # <<>> THEN ClassInit(Bases(c)[1], s1, tk)
      ELSE Ok(s1)

\* c(tk): a new instance, or the exception its constructor raised
Construct(c, tk) == ClassInit(c, NewObject(c), tk)

\* ------------------------------------------------------------------ dump
\* every attribute name of the model, in the order sorted() gives, which is
\* the order dir() lists them in
SortedNames ==
  <<"__init__", "__repr__", "_build", "_build_dict", "_build_list",
    "_build_val", "alias", "args", "attr", "base", "body", "branch", "cap",
    "cases", "chan", "clone", "col", "cond", "consts", "decls", "dir",
    "elem", "expr", "fields", "file", "funcs", "imports", "incr", "init",
    "iota", "is_call", "items", "key", "kind", "label", "left", "len",
    "link", "links", "lval", "mods", "name", "names", "op", "opts",
    "package", "path", "pos", "post", "recv", "rets", "right", "row",
    "rval", "signature", "src", "svd", "tags", "terms", "type", "types",
    "val", "vals", "value", "values", "var", "vars", "vt">>

\* the names that start or end with an underscore
Underscored ==
  {"__init__", "__repr__", "_build", "_build_dict", "_build_list", "_build_val"}

\* dir(self): the slots, class attributes and methods of the instance, sorted
HasName(c, n) == n \in AllSlots[c] \cup DOMAIN ClassAttrs(c) \cup Methods(c)
Dir == [c \in Classes |-> SelectSeq(SortedNames, LAMBDA n : HasName(c, n))]
dir(self) == Dir[self.kind]

\* str() of an inferred type
str_T(t) == <<"str", t[2]>>

\* the result of _build and its helpers: the value built and the path set as
\* the call left it
Built(v, path) == [exc |-> "", val |-> v, path |-> path]
Failed(e, path) == [exc |-> e, val |-> None, path |-> path]

RECURSIVE _build(_, _, _), _build_val(_, _, _), _build_list(_, _, _, _, _),
          _build_dict(_, _, _, _, _), _build_attrs_of(_, _, _, _, _, _)

\* the path set of a dump: ids is the set _build receives, adds to and
\* removes from; entered is a record of the calls of _build made so far, each
\* with the node and the set as the call found it
NoPath == [ids |-> {}, entered |-> {}]
path_enter(path, id) == [path EXCEPT !.entered = @ \cup {<<id, path.ids>>}]
path_add(path, id) == [path EXCEPT !.ids = @ \cup {id}]
path_remove(path, id) == [path EXCEPT !.ids = @ \ {id}]

\* a variant of _build that renders a node already on the path as None
_build_repeat_as_none(h, id, path) ==
  IF id \in path.ids THEN Built(None, path_enter(path, id))
  ELSE LET r == _build_attrs_of(h, id, dir(h[id]), 1, path_add(path_enter(path, id), id),
                                << <<"__class__", <<"str", h[id].kind>> >> >>)
       IN  IF r.exc # "" THEN r ELSE Built(r.val, path_remove(r.path, id))

\* a variant of _build that leaves the node in the path set when it returns
_build_no_remove(h, id, path) ==
  IF id \in path.ids THEN Built(EmptyDict, path_enter(path, id))
  ELSE LET r == _build_attrs_of(h, id, dir(h[id]), 1, path_add(path_enter(path, id), id),
                                << <<"__class__", <<"str", h[id].kind>> >> >>)
       IN  IF r.exc # "" THEN r ELSE Built(r.val, r.path)

\* Node._build
_build(h, id, path) ==
  IF id \in path.ids THEN Built(EmptyDict, path_enter(path, id))
  ELSE LET r == _build_attrs_of(h, id, dir(h[id]), 1, path_add(path_enter(path, id), id),
                                << <<"__class__", <<"str", h[id].kind>> >> >>)
       IN  IF r.exc # "" THEN r ELSE Built(r.val, path_remove(r.path, id))

\* a variant of the loop that does not leave out row, col and file
_build_attrs_of_with_position(h, id, names, i, path, ret) ==
  IF i > Len(names) THEN Built(<<"map", ret>>, path)
  ELSE
    LET attr == names[i]
        g == getattr(h[id], attr)
    IN  IF attr \in Underscored
        THEN _build_attrs_of(h, id, names, i + 1, path, ret)
        ELSE IF g.exc # "" THEN Failed(g.exc, path)
        ELSE IF g.val[1] = "method"
        THEN _build_attrs_of(h, id, names, i + 1, path, ret)
        ELSE IF attr # "vt"
        THEN LET b == _build_val(h, path, g.val)
             IN  IF b.exc # "" THEN b
                 ELSE _build_attrs_of(h, id, names, i + 1, b.path,
                                      Append(ret, <<attr, b.val>>))
        ELSE IF g.val # None
        THEN _build_attrs_of(h, id, names, i + 1, path,
                             Append(ret, <<attr, str_T(g.val)>>))
        ELSE _build_attrs_of(h, id, names, i + 1, path, Append(ret, <<attr, None>>))

\* a variant of the loop that leaves vt out of the mapping while it is None
_build_attrs_of_omit_null_vt(h, id, names, i, path, ret) ==
  IF i > Len(names) THEN Built(<<"map", ret>>, path)
  ELSE
    LET attr == names[i]
        g == getattr(h[id], attr)
    IN  IF attr \in {"row", "col", "file"} \/ attr \in Underscored
        THEN _build_attrs_of(h, id, names, i + 1, path, ret)
        ELSE IF g.exc # "" THEN Failed(g.exc, path)
        ELSE IF g.val[1] = "method"
        THEN _build_attrs_of(h, id, names, i + 1, path, ret)
        ELSE IF attr # "vt"
        THEN LET b == _build_val(h, path, g.val)
             IN  IF b.exc # "" THEN b
                 ELSE _build_attrs_of(h, id, names, i + 1, b.path,
                                      Append(ret, <<attr, b.val>>))
        ELSE IF g.val # None
        THEN _build_attrs_of(h, id, names, i + 1, path,
                             Append(ret, <<attr, str_T(g.val)>>))
        ELSE _build_attrs_of(h, id, names, i + 1, path, ret)

\* the loop of _build over dir(self), from its i-th name on; ret is the
\* mapping built so far
_build_attrs_of(h, id, names, i, path, ret) ==
  IF i > Len(names) THEN Built(<<"map", ret>>, path)
  ELSE
    LET attr == names[i]
        g == getattr(h[id], attr)
    IN  IF attr \in {"row", "col", "file"} \/ attr \in Underscored
        THEN _build_attrs_of(h, id, names, i + 1, path, ret)
        ELSE IF g.exc # "" THEN Failed(g.exc, path)
        ELSE IF g.val[1] = "method"
        THEN _build_attrs_of(h, id, names, i + 1, path, ret)
        ELSE IF attr # "vt"
        THEN LET b == _build_val(h, path, g.val)
             IN  IF b.exc # "" THEN b
                 ELSE _build_attrs_of(h, id, names, i + 1, b.path,
                                      Append(ret, <<attr, b.val>>))
        ELSE IF g.val # None
        THEN _build_attrs_of(h, id, names, i + 1, path,
                             Append(ret, <<attr, str_T(g.val)>>))
        ELSE _build_attrs_of(h, id, names, i + 1, path, Append(ret, <<attr, None>>))

\* Node._build_val
_build_val(h, path, val) ==
  IF IsRef(val) THEN _build(h, val[2], path)
  ELSE IF val[1] = "complex" THEN Built(<<"str", val[2]>>, path)
  ELSE IF val[1] = "bytes" THEN Built(<<"str", val[2]>>, path)
  ELSE IF val[1] = "map" THEN _build_dict(h, path, val[2], 1, <<>>)
  ELSE IF val[1] \in {"list", "tuple"} THEN _build_list(h, path, val[2], 1, <<>>)
  ELSE Built(val, path)

\* Node._build_list: the items from the i-th on; acc is the list built so far
_build_list(h, path, items, i, acc) ==
  IF i > Len(items) THEN Built(<<"list", acc>>, path)
  ELSE LET b == _build_val(h, path, items[i])
       IN  IF b.exc # "" THEN b
           ELSE _build_list(h, b.path, items, i + 1, Append(acc, b.val))

\* Node._build_dict: the <<key, value>> entries from the i-th on
_build_dict(h, path, entries, i, acc) ==
  IF i > Len(entries) THEN Built(<<"map", acc>>, path)
  ELSE LET b == _build_val(h, path, entries[i][2])
       IN  IF b.exc # "" THEN b
           ELSE _build_dict(h, b.path, entries, i + 1,
                            Append(acc, <<entries[i][1], b.val>>))

\* ----------------------------------------------------------------- clone
\* the kinds whose clone is `return self`
SelfClone ==
  ValueKinds \cup {"LinkSpec", "ImportC", "ImportHere", "Fallthrough", "Empty"}

\* the other clone bodies: the class `ret` is made of, and one step for each
\* `ret.f = ...` line: "copy" self.f, "node" self.f.clone(), "opt"
\* self.f and self.f.clone(), "list" [v.clone() for v in self.f]
CloneBody(c) ==
  CASE c = "MapType" -> [new |-> "MapType", steps |-> <<<<"key", "node">>, <<"elem", "node">>>>]
    [] c = "ArrayType" -> [new |-> "ArrayType", steps |-> <<<<"len", "node">>, <<"elem", "node">>>>]
    [] c = "SliceType" -> [new |-> "SliceType", steps |-> <<<<"elem", "node">>>>]
    [] c = "NamedType" -> [new |-> "NamedType", steps |-> <<<<"name", "node">>, <<"package", "opt">>>>]
    [] c = "StructType" -> [new |-> "StructType", steps |-> <<<<"fields", "list">>>>]
    [] c = "StructField" -> [new |-> "StructField", steps |-> <<<<"type", "node">>, <<"name", "opt">>, <<"tags", "opt">>>>]
    [] c = "ChannelType" -> [new |-> "ChannelType", steps |-> <<<<"dir", "copy">>, <<"elem", "node">>>>]
    [] c = "PointerType" -> [new |-> "PointerType", steps |-> <<<<"base", "node">>>>]
    [] c = "FunctionType" -> [new |-> "FunctionType", steps |-> <<<<"type", "node">>>>]
    [] c = "FunctionArgument" -> [new |-> "FunctionArgument", steps |-> <<<<"name", "opt">>, <<"type", "node">>>>]
    [] c = "FunctionSignature" -> [new |-> "FunctionSignature", steps |-> <<<<"var", "copy">>, <<"args", "list">>, <<"rets", "list">>>>]
    [] c = "InterfaceType" -> [new |-> "InterfaceType", steps |-> <<<<"decls", "list">>>>]
    [] c = "InterfaceMethod" -> [new |-> "InterfaceMethod", steps |-> <<<<"name", "node">>, <<"type", "node">>>>]
    [] c = "Primary" -> [new |-> "Primary", steps |-> <<<<"val", "node">>, <<"mods", "list">>>>]
    [] c = "Conversion" -> [new |-> "Conversion", steps |-> <<<<"type", "node">>, <<"value", "node">>>>]
    [] c = "Expression" -> [new |-> "Expression", steps |-> <<<<"op", "opt">>, <<"left", "node">>, <<"right", "opt">>>>]
    [] c = "Lambda" -> [new |-> "Lambda", steps |-> <<<<"body", "node">>, <<"signature", "node">>>>]
    [] c = "VarArrayType" -> [new |-> "VarArrayType", steps |-> <<<<"elem", "node">>>>]
    [] c = "LiteralValue" -> [new |-> "LiteralValue", steps |-> <<<<"items", "list">>>>]
    [] c = "Element" -> [new |-> "Element", steps |-> <<<<"key", "opt">>, <<"value", "node">>>>]
    [] c = "Composite" -> [new |-> "Composite", steps |-> <<<<"type", "opt">>, <<"value", "node">>>>]
    [] c = "Index" -> [new |-> "Index", steps |-> <<<<"expr", "node">>>>]
    [] c = "Slice" -> [new |-> "Slice", steps |-> <<<<"pos", "opt">>, <<"len", "opt">>, <<"cap", "opt">>>>]
    [] c = "Selector" -> [new |-> "Selector", steps |-> <<<<"attr", "node">>>>]
    [] c = "Arguments" -> [new |-> "Arguments", steps |-> <<<<"var", "copy">>, <<"args", "list">>>>]
    [] c = "Assertion" -> [new |-> "Assertion", steps |-> <<<<"type", "opt">>>>]
    [] c = "InitSpec" -> [new |-> "InitSpec", steps |-> <<<<"iota", "copy">>, <<"type", "opt">>, <<"names", "list">>, <<"values", "list">>, <<"consts", "copy">>>>]
    [] c = "TypeSpec" -> [new |-> "TypeSpec", steps |-> <<<<"name", "node">>, <<"type", "node">>, <<"alias", "copy">>>>]
    [] c = "Function" -> [new |-> "Function", steps |-> <<<<"opts", "copy">>, <<"name", "node">>, <<"type", "node">>, <<"recv", "opt">>, <<"body", "opt">>>>]
    [] c = "ImportSpec" -> [new |-> "ImportSpec", steps |-> <<<<"path", "node">>, <<"alias", "opt">>>>]
    [] c = "Package" -> [new |-> "ImportSpec", steps |-> <<<<"name", "node">>, <<"vars", "list">>, <<"links", "list">>, <<"funcs", "list">>, <<"types", "list">>, <<"consts", "list">>, <<"imports", "list">>>>]
    [] c = "Go" -> [new |-> "Go", steps |-> <<<<"expr", "node">>>>]
    [] c = "If" -> [new |-> "If", steps |-> <<<<"cond", "node">>, <<"init", "node">>, <<"body", "node">>, <<"branch", "opt">>>>]
    [] c = "For" -> [new |-> "For", steps |-> <<<<"body", "node">>, <<"cond", "opt">>, <<"init", "opt">>, <<"post", "opt">>>>]
    [] c = "ForRange" -> [new |-> "ForRange", steps |-> <<<<"svd", "copy">>, <<"expr", "node">>, <<"body", "node">>, <<"terms", "list">>>>]
    [] c = "Defer" -> [new |-> "Defer", steps |-> <<<<"expr", "node">>>>]
    [] c = "Select" -> [new |-> "Select", steps |-> <<<<"cases", "list">>>>]
    [] c = "SelectCase" -> [new |-> "SelectCase", steps |-> <<<<"body", "list">>, <<"expr", "opt">>>>]
    [] c = "SelectReceive" -> [new |-> "SelectReceive", steps |-> <<<<"svd", "copy">>, <<"value", "node">>, <<"terms", "list">>>>]
    [] c = "Switch" -> [new |-> "Switch", steps |-> <<<<"expr", "opt">>, <<"init", "opt">>, <<"cases", "list">>>>]
    [] c = "SwitchCase" -> [new |-> "Switch", steps |-> <<<<"vals", "list">>, <<"body", "list">>>>]
    [] c = "TypeSwitch" -> [new |-> "TypeSwitch", steps |-> <<<<"name", "opt">>, <<"type", "opt">>, <<"init", "opt">>, <<"cases", "list">>>>]
    [] c = "TypeSwitchCase" -> [new |-> "TypeSwitchCase", steps |-> <<<<"body", "list">>, <<"types", "list">>>>]
    [] c = "Goto" -> [new |-> "Goto", steps |-> <<<<"label", "node">>>>]
    [] c = "Label" -> [new |-> "Label", steps |-> <<<<"name", "node">>, <<"body", "node">>>>]
    [] c = "Return" -> [new |-> "Return", steps |-> <<<<"vals", "list">>>>]
    [] c = "Break" -> [new |-> "Break", steps |-> <<<<"label", "opt">>>>]
    [] c = "Continue" -> [new |-> "Continue", steps |-> <<<<"label", "opt">>>>]
    [] c = "Send" -> [new |-> "Send", steps |-> <<<<"chan", "node">>, <<"expr", "node">>>>]
    [] c = "IncDec" -> [new |-> "IncDec", steps |-> <<<<"incr", "copy">>, <<"expr", "node">>>>]
    [] c = "Assignment" -> [new |-> "Assignment", steps |-> <<<<"type", "node">>, <<"lval", "list">>, <<"rval", "list">>>>]
    [] c = "CompoundStatement" -> [new |-> "CompoundStatement", steps |-> <<<<"body", "list">>>>]

\* truth value of a plain value or node (a node defines neither __bool__ nor
\* __len__, so it is true)
Falsy(v) ==
  \/ v \in {None, False, <<"int", 0>>, <<"str", "">>, <<"bytes", "">>}
  \/ v[1] \in {"list", "tuple", "map"} /\ v[2] = <<>>

\* the result of clone and its helpers: the value and the heap with the
\* objects created so far
Cloned(v, h) == [exc |-> "", val |-> v, heap |-> h]
Thrown(e, h) == [exc |-> e, val |-> None, heap |-> h]

RECURSIVE clone(_, _, _), clone_steps(_, _, _, _, _, _), clone_list(_, _, _, _, _)

\* v.clone() of a value: only a node has the method
call_clone(h, v, depth) ==
  IF IsRef(v) THEN clone(h, v[2], depth - 1) ELSE Thrown("AttributeError", h)

\* [v.clone() for v in items], from the i-th item on
clone_list(h, items, i, acc, depth) ==
  IF i > Len(items) THEN Cloned(<<"list", acc>>, h)
  ELSE LET r == call_clone(h, items[i], depth)
       IN  IF r.exc # "" THEN r
           ELSE clone_list(r.heap, items, i + 1, Append(acc, r.val), depth)

\* the right-hand side of one `ret.f = ...` line
clone_rhs(h, v, mode, depth) ==
  CASE mode = "copy" -> Cloned(v, h)
    [] mode = "node" -> call_clone(h, v, depth)
    [] mode = "opt" -> IF Falsy(v) THEN Cloned(v, h) ELSE call_clone(h, v, depth)
    [] mode = "list" ->
         IF v[1] \in {"list", "tuple"} THEN clone_list(h, v[2], 1, <<>>, depth)
         ELSE IF v[1] \in {"str", "bytes"}
         THEN (IF v[2] = "" THEN Cloned(EmptyList, h) ELSE Thrown("AttributeError", h))
         ELSE Thrown("TypeError", h)

\* the `ret.f = ...` lines of a clone body from the i-th on; ret is the index
\* of the new object
clone_steps(h, id, ret, steps, i, depth) ==
  IF i > Len(steps) THEN Cloned(Ref(ret), h)
  ELSE
    LET f == steps[i][1]
        g == getattr(h[id], f)
        r == clone_rhs(h, g.val, steps[i][2], depth)
        s == setattr(r.heap[ret], f, r.val)
    IN  IF g.exc # "" THEN Thrown(g.exc, h)
        ELSE IF r.exc # "" THEN r
        ELSE IF s.exc # "" THEN Thrown(s.exc, r.heap)
        ELSE clone_steps([r.heap EXCEPT ![ret] = s.val], id, ret, steps, i + 1, depth)

\* self.clone() of the node heap[id]. depth is the number of nested clone
\* calls still allowed: a chain of more calls than the heap has nodes goes
\* round a cycle and never ends, which Python stops with RecursionError
clone(h, id, depth) ==
  IF h[id].kind \in SelfClone THEN Cloned(Ref(id), h)
  ELSE IF depth = 0 THEN Thrown("RecursionError", h)
  ELSE
    LET self == h[id]
        body == CloneBody(self.kind)
        tk == Token(self.slots["col"], self.slots["row"], self.slots["file"],
                    <<"tag", "End">>, None)
        new == Construct(body.new, tk)
    IN  IF new.exc # "" THEN Thrown(new.exc, h)
        ELSE clone_steps(Append(h, new.val), id, Len(h) + 1, body.steps, 1, depth)

\* ------------------------------------------------------------ the program
\* the node kinds the tree specification builds trees of
TreeKinds == {"Name", "NamedType", "StructType", "StructField", "Package"}

\* the tokens a constructor is given: <<kind tag, value>> at one position
TokenShapes ==
  { <<"Int", <<"int", 42>> >>, <<"Name", <<"str", "x">> >>,
    <<"Operator", <<"str", ".">> >>, <<"Operator", <<"str", "+">> >>,
    <<"String", <<"bytes", "lib">> >>, <<"Comments", <<"str", "c">> >>,
    <<"Bool", True>>, <<"Rune", <<"int", 97>> >>, <<"Float", <<"float", "1.5">> >>,
    <<"Complex", <<"complex", "2j">> >>, <<"End", None>> }
Tokens ==
  {Token(<<"int", 7>>, <<"int", 3>>, <<"str", "a.gp">>, <<"tag", s[1]>>, s[2]) :
     s \in TokenShapes}

\* the values of the right Python type for one alternative of an annotation
AltValues(h, a) ==
  CASE a = "NoneType" -> {None}
    [] a = "bool" -> {True, False}
    [] a = "int" -> {<<"int", 0>>}
    [] a = "str" -> {<<"str", "s">>}
    [] a = "T" -> {<<"T", "UntypedInt">>}
    [] a \in {"ChannelOptions", "FunctionOptions"} -> {<<"opt", a>>}
    [] a = "List[InitSpec]" ->
         {<<"list", <<Ref(i)>> >> : i \in {j \in DOMAIN h : h[j].kind = "InitSpec"}}
    [] a = "List[TypeSpec]" ->
         {<<"list", <<Ref(i)>> >> : i \in {j \in DOMAIN h : h[j].kind = "TypeSpec"}}
    [] OTHER -> {Ref(i) : i \in {j \in DOMAIN h : h[j].kind = a}}

\* the values an annotation admits, over the nodes of the heap: one of its
\* alternatives, or for a list a list of at most MaxList of them
TypeValues(h, vtype) ==
  LET alts == UNION {AltValues(h, a) : a \in vtype.args}
  IN  IF vtype.origin = "list"
      THEN {<<"list", s>> : s \in UNION {[1..n -> alts] : n \in 0..MaxList}}
      ELSE alts

\* the fields a parser or a pass assigns: the annotated fields of the kind's
\* own class body, and vt
AssignableFields ==
  [c \in AllKinds |->
     {<<annotations(c)[i][1], annotations(c)[i][2]>> : i \in DOMAIN annotations(c)}
     \cup {<<"vt", annotations("Node")[1][2]>>}]

\* names no kind declares, and the names other kinds declare
StrayNames ==
  [c \in AllKinds |->
     {"extra", "name", "vals", "cap", "src"}
     \ (AllSlots[c] \cup DOMAIN ClassAttrs(c) \cup Methods(c))]

NoToken == Token(None, None, None, <<"tag", "End">>, None)

\* what the last operation was and what it returned or raised
Result(op, kind, tk, id, name, exc, val, path) ==
  [op |-> op, kind |-> kind, tk |-> tk, id |-> id, name |-> name,
   exc |-> exc, val |-> val, path |-> path]

Init ==
  /\ heap = <<>>
  /\ last = Result("init", "", NoToken, 0, "", "", None, NoPath)

\* n = c(tk)
DoConstruct(c, tk) ==
  \E r \in {Construct(c, tk)} :
      IF r.exc = ""
      THEN /\ heap' = Append(heap, r.val)
           /\ last' = Result("new", c, tk, Len(heap) + 1, "", "", Ref(Len(heap) + 1), NoPath)
      ELSE /\ heap' = heap
           /\ last' = Result("new", c, tk, 0, "", r.exc, None, NoPath)

New(c, tk) ==
  /\ Len(heap) < MaxNodes
  /\ DoConstruct(c, tk)

\* the first node a run constructs
NewFirst(c, tk) ==
  /\ heap = <<>>
  /\ DoConstruct(c, tk)

\* heap[id].name = v
Assign(id, name, v) ==
  \E r \in {setattr(heap[id], name, v)} :
      /\ heap' = IF r.exc = "" THEN [heap EXCEPT ![id] = r.val] ELSE heap
      /\ last' = Result("assign", heap[id].kind, NoToken, id, name, r.exc, v, NoPath)

\* heap[id].name
Read(id, name) ==
  \E r \in {getattr(heap[id], name)} :
      /\ heap' = heap
      /\ last' = Result("read", heap[id].kind, NoToken, id, name, r.exc, r.val, NoPath)

\* heap[id].clone(); the objects of a call that raised are garbage
Clone(id) ==
  \E r \in {clone(heap, id, Len(heap))} :
      /\ r.exc # "" \/ Len(r.heap) <= MaxNodes
      /\ heap' = IF r.exc = "" THEN r.heap ELSE heap
      /\ last' = Result("clone", heap[id].kind, NoToken, id, "", r.exc, r.val, NoPath)

\* heap[id]._build(set()), as __repr__ calls it
Dump(id) ==
  \E r \in {_build(heap, id, NoPath)} :
      /\ heap' = heap
      /\ last' = Result("dump", heap[id].kind, NoToken, id, "", r.exc, r.val, r.path)

AssignField ==
  \E id \in DOMAIN heap : \E f \in AssignableFields[heap[id].kind] :
    \E v \in TypeValues(heap, f[2]) : Assign(id, f[1], v)

AssignStray ==
  \E id \in DOMAIN heap : \E n \in StrayNames[heap[id].kind] : Assign(id, n, None)

ReadField ==
  \E id \in DOMAIN heap :
    \E n \in AllSlots[heap[id].kind] \cup DOMAIN ClassAttrs(heap[id].kind) : Read(id, n)

CloneNode == \E id \in DOMAIN heap : Clone(id)

DumpNode == \E id \in DOMAIN heap : Dump(id)

\* the token the trees are built from: an identifier
TreeTokens == {tk \in Tokens : tk.kind = <<"tag", "Name">>}

NewNode == \E c \in TreeKinds : \E tk \in TreeTokens : New(c, tk)

NewFirstNode == \E c \in AllKinds : \E tk \in Tokens : NewFirst(c, tk)

\* trees of the kinds of TreeKinds, of at most MaxNodes nodes
Next ==
  \/ NewNode
  \/ AssignField
  \/ CloneNode
  \/ DumpNode

Spec == Init /\ [][Next]_vars

\* one node of any kind, and its clones
NextOne ==
  \/ NewFirstNode
  \/ AssignField
  \/ AssignStray
  \/ ReadField
  \/ DumpNode

SpecOne == Init /\ [][NextOne]_vars

\* =============================================================== properties
\* position metadata: set by Node.__init__, neither defaultable nor mandatory
Position == {"row", "col", "file"}

\* the annotated fields of a kind, its own and the inherited ones
RECURSIVE DeclaredOf(_)
DeclaredOf(c) ==
  {annotations(c)[i] : i \in DOMAIN annotations(c)}
  \cup (IF Bases(c) = <<>> THEN {} ELSE DeclaredOf(Bases(c)[1]))
Declared == [c \in AllKinds |-> DeclaredOf(c)]
DeclaredNames(c) == {f[1] : f \in Declared[c]}
DeclaredFields(c) == {f \in Declared[c] : f[1] \notin Position}

\* the disposition table: the defaults it gives a declared type, none for a
\* mandatory one
TableDefaults(vtype) ==
  (IF vtype.origin = "" /\ vtype.cls = "bool" THEN {False} ELSE {})
  \cup (IF vtype.origin = "list" THEN {EmptyList} ELSE {})
  \cup (IF vtype.origin = "dict" THEN {EmptyDict} ELSE {})
  \cup (IF vtype.origin = "tuple" THEN {EmptyTuple} ELSE {})
  \cup (IF vtype.origin = "Union" /\ "bool" \in vtype.args THEN {False} ELSE {})
  \cup (IF vtype.origin = "Union" /\ "NoneType" \in vtype.args THEN {None} ELSE {})
Defaultable(vtype) == TableDefaults(vtype) # {}

\* the kinds with a hand-written constructor, and the token tag each expects
HandKinds == ValueKinds \cup {"ImportC", "ImportHere"}
ExpectedTag(c) ==
  IF c = "ImportC" THEN <<"tag", "Comments">>
  ELSE IF c = "ImportHere" THEN <<"tag", "Operator">>
  ELSE <<"tag", c>>

\* the last operation constructed a node
Constructed == last.op = "new" /\ last.exc = ""

\* C3 as stated: immediately after construction every defaultable field holds
\* a default of the table for its declared type and every mandatory field is
\* unset (reading it fails).
C3_MandatoryAllUnset ==
  Constructed =>
    \A f \in DeclaredFields(last.kind) :
      LET g == getattr(heap[last.id], f[1])
      IN  IF Defaultable(f[2])
          THEN g.exc = "" /\ g.val \in TableDefaults(f[2])
          ELSE g.exc = "AttributeError"

\* the mandatory fields that are readable right after construction: what the
\* hand-written constructors store from the token, and the class-level tag
FromToken(c) ==
  IF c \in ValueKinds THEN {"value"} ELSE IF c = "ImportC" THEN {"src"} ELSE {}
FromClass(c) == IF c \in ValueKinds THEN {"kind"} ELSE {}

\* C3 amended: immediately after construction every defaultable field holds a
\* default of the table for its declared type; a mandatory field is unset,
\* except that value of a Value kind and src of ImportC hold the value of the
\* token, and kind of a Value kind reads as the tag the kind expects.
C3_DefaultsAfterConstruction ==
  Constructed =>
    \A f \in DeclaredFields(last.kind) :
      LET g == getattr(heap[last.id], f[1])
      IN  IF Defaultable(f[2])
          THEN g.exc = "" /\ g.val \in TableDefaults(f[2])
          ELSE IF f[1] \in FromToken(last.kind)
          THEN g.exc = "" /\ g.val = last.tk.value
          ELSE IF f[1] \in FromClass(last.kind)
          THEN g.exc = "" /\ g.val = ExpectedTag(last.kind)
          ELSE g.exc = "AttributeError"

\* a node with defaultable and with mandatory fields was constructed
C3_Witness ==
  /\ Constructed
  /\ \E f \in DeclaredFields(last.kind) : f[2].origin = "list"
  /\ \E f \in DeclaredFields(last.kind) :
       ~Defaultable(f[2]) /\ heap[last.id].slots[f[1]] = Unset

\* a Value kind was constructed from a token
C3_ValueWitness == Constructed /\ last.kind \in ValueKinds

\* C4: a field whose declared type is a union containing both bool and
\* absent holds false right after construction, never absent.
C4_BoolBeforeAbsent ==
  Constructed =>
    \A f \in DeclaredFields(last.kind) :
      (f[2].origin = "Union" /\ {"bool", "NoneType"} \subseteq f[2].args)
        => getattr(heap[last.id], f[1]) = Ok(False)

\* a Slice was constructed: its cap is such a field
C4_Witness ==
  /\ Constructed /\ last.kind = "Slice"
  /\ \E f \in DeclaredFields("Slice") :
       f[1] = "cap" /\ {"bool", "NoneType"} \subseteq f[2].args

C6_ReadWitness ==
  /\ last.op = "read" /\ last.kind = "Package" /\ last.name = "name"
  /\ last.exc = "AttributeError"

\* C7 as stated: a hand-written constructor fails with an assertion error
\* and yields no node when the tag of the token differs from the tag the
\* kind expects, and succeeds when the tag matches.
C7_TagDecides ==
  (last.op = "new" /\ last.kind \in HandKinds) =>
    IF last.tk.kind = ExpectedTag(last.kind)
    THEN last.exc = "" /\ heap[last.id].kind = last.kind
    ELSE last.exc = "AssertionError" /\ heap = <<>>

\* C7 amended: a hand-written constructor fails with an assertion error and
\* yields no node when the tag of the token differs from the tag the kind
\* expects; with a matching tag it succeeds, except that ImportHere also
\* requires the value of the token to be "." and fails the same way otherwise.
C7_TagAndDotDecide ==
  (last.op = "new" /\ last.kind \in HandKinds) =>
    IF /\ last.tk.kind = ExpectedTag(last.kind)
       /\ last.kind = "ImportHere" => last.tk.value = <<"str", ".">>
    THEN last.exc = "" /\ heap[last.id].kind = last.kind
    ELSE last.exc = "AssertionError" /\ heap = <<>>

\* a constructor refused a token of another tag
C7_Witness ==
  /\ last.op = "new" /\ last.kind \in HandKinds
  /\ last.tk.kind # ExpectedTag(last.kind)
  /\ last.exc = "AssertionError"

\* ImportHere accepted the operator "."
C7_DotWitness == Constructed /\ last.kind = "ImportHere"

\* the token of the integer literal 42 at row 3, column 7 of a.gp
IntToken ==
  Token(<<"int", 7>>, <<"int", 3>>, <<"str", "a.gp">>, <<"tag", "Int">>, <<"int", 42>>)

\* the node dumped last is as Int(IntToken) made it
IntDumped ==
  /\ last.op = "dump" /\ last.kind = "Int"
  /\ heap[last.id] = Construct("Int", IntToken).val

\* C8 as stated: the dump of the node constructed from the token (Int, 42,
\* row 3, col 7, a.gp) is exactly __class__ "Int", value 42, vt "UntypedInt".
C8_IntDumpAsStated ==
  IntDumped =>
    /\ last.exc = ""
    /\ last.val = <<"map", << <<"__class__", <<"str", "Int">> >>,
                              <<"value", <<"int", 42>> >>,
                              <<"vt", <<"str", "UntypedInt">> >> >> >>

\* C8 amended: the dump of the node constructed from the token (Int, 42,
\* row 3, col 7, a.gp) is exactly __class__ "Int", kind the Int token tag,
\* value 42, vt null: the position fields are left out, the class-level kind
\* is not, and vt is null because the constructor assigns none.
C8_IntDump ==
  IntDumped =>
    /\ last.exc = ""
    /\ last.val = <<"map", << <<"__class__", <<"str", "Int">> >>,
                              <<"kind", <<"tag", "Int">> >>,
                              <<"value", <<"int", 42>> >>,
                              <<"vt", None>> >> >>

\* the integer literal was constructed and dumped
C8_Witness == IntDumped /\ last.exc = "" /\ Len(heap) = 1

\* the node dumped last is as Package(tk) made it
PackageDumped ==
  /\ last.op = "dump" /\ last.kind = "Package"
  /\ \E tk \in Tokens : heap[last.id] = Construct("Package", tk).val

\* C9 as stated: the dump of a Package no field of which was assigned
\* succeeds and is exactly __class__ "Package", name null and the six lists
\* empty.
C9_EmptyPackageDumpAsStated ==
  PackageDumped =>
    /\ last.exc = ""
    /\ last.val = <<"map", << <<"__class__", <<"str", "Package">> >>,
                              <<"consts", EmptyList>>, <<"funcs", EmptyList>>,
                              <<"imports", EmptyList>>, <<"links", EmptyList>>,
                              <<"name", None>>, <<"types", EmptyList>>,
                              <<"vars", EmptyList>> >> >>

\* C9 amended: the dump of a Package no field of which was assigned fails
\* with an attribute error when it reads the unset mandatory field name, and
\* yields no mapping.
C9_EmptyPackageDumpFails ==
  PackageDumped => last.exc = "AttributeError" /\ last.val = None

\* a Package was constructed and dumped
C9_Witness == PackageDumped /\ heap[last.id].slots["name"] = Unset

\* ------------------------------------------------------- trees and dumps
\* the occurrences of nodes in the value v of heap h, each with the path of
\* steps that leads to it (<<"attr", name>> into a field, <<"item", k>> into
\* a list), the node, and whether it repeats one of its ancestors anc
RECURSIVE Occ(_, _, _, _)
Occ(h, v, anc, prefix) ==
  IF IsRef(v)
  THEN IF v[2] \in anc
       THEN {[path |-> prefix, id |-> v[2], repeat |-> TRUE]}
       ELSE {[path |-> prefix, id |-> v[2], repeat |-> FALSE]}
            \cup UNION {Occ(h, h[v[2]].slots[n], anc \cup {v[2]},
                            Append(prefix, <<"attr", n>>)) :
                          n \in DOMAIN h[v[2]].slots \ (Position \cup {"vt"})}
  ELSE IF IsList(v)
  THEN UNION {Occ(h, v[2][k], anc, Append(prefix, <<"item", k>>)) : k \in DOMAIN v[2]}
  ELSE {}

\* the occurrences in the tree of the node id
Occurrences(h, id) == Occ(h, Ref(id), {}, <<>>)

\* every field of the node id and of the nodes below it has a value
Populated(h, id) ==
  \A o \in Occurrences(h, id) :
    \A n \in DOMAIN h[o.id].slots : getattr(h[o.id], n).exc = ""

\* no node below the node id is its own ancestor
Acyclic(h, id) == \A o \in Occurrences(h, id) : ~o.repeat

\* a rendered mapping: whether it has a key, and the value of a key
HasKey(d, key) == d[1] = "map" /\ \E i \in DOMAIN d[2] : d[2][i][1] = key
Lookup(d, key) == d[2][CHOOSE i \in DOMAIN d[2] : d[2][i][1] = key][2]

\* the part of a rendering a path leads to
RECURSIVE At(_, _)
At(d, path) ==
  IF path = <<>> THEN d
  ELSE IF Head(path)[1] = "attr" THEN At(Lookup(d, Head(path)[2]), Tail(path))
  ELSE At(d[2][Head(path)[2]], Tail(path))

\* the last operation dumped a node whose tree is populated
DumpedPopulated == last.op = "dump" /\ Populated(heap, last.id)

\* C5: the dump of a populated tree returns, also when the tree has a cycle;
\* an occurrence of a node that is already on the recursion path is rendered
\* as the empty mapping, and every other occurrence as a mapping of its kind.
C5_CycleRenderedEmpty ==
  DumpedPopulated =>
    /\ last.exc = ""
    /\ \A o \in Occurrences(heap, last.id) :
         IF o.repeat THEN At(last.val, o.path) = EmptyDict
         ELSE /\ HasKey(At(last.val, o.path), "__class__")
              /\ Lookup(At(last.val, o.path), "__class__") = <<"str", heap[o.id].kind>>

\* a tree with a cycle was dumped
C5_Witness ==
  /\ DumpedPopulated /\ last.exc = ""
  /\ \E o \in Occurrences(heap, last.id) : o.repeat

\* C10: in every mapping a dump produces for an occurrence of a node that
\* does not repeat an ancestor, the key "vt" is present; its value is the
\* text of the inferred type when vt holds one, and null when it holds none.
C10_VtAlwaysPresent ==
  (last.op = "dump" /\ last.exc = "") =>
    \A o \in Occurrences(heap, last.id) :
      ~o.repeat =>
        LET d == At(last.val, o.path)
            vt == heap[o.id].slots["vt"]
        IN  /\ HasKey(d, "vt")
            /\ Lookup(d, "vt") = IF vt = None THEN None ELSE <<"str", vt[2]>>

\* a tree was dumped in which one node has an inferred type and one has none
C10_Witness ==
  /\ last.op = "dump" /\ last.exc = ""
  /\ \E o \in Occurrences(heap, last.id) : ~o.repeat /\ heap[o.id].slots["vt"] # None
  /\ \E o \in Occurrences(heap, last.id) : ~o.repeat /\ heap[o.id].slots["vt"] = None

\* ------------------------------------------------------------------ clone
\* the last operation cloned a node whose tree is populated and has no cycle
ClonedPopulated ==
  /\ last.op = "clone"
  /\ Populated(heap, last.id)
  /\ Acyclic(heap, last.id)

\* C1: the clone of a node whose tree is populated succeeds, and the dump of
\* the clone equals the dump of the node, also when vt was assigned in it.
C1_CloneDumpEqual ==
  ClonedPopulated =>
    /\ last.exc = ""
    /\ _build(heap, last.val[2], NoPath).exc = ""
    /\ _build(heap, last.val[2], NoPath).val = _build(heap, last.id, NoPath).val

\* a Package whose name is assigned was cloned
C1_PackageCloned == ClonedPopulated /\ last.kind = "Package"

\* a node with an inferred type was cloned
C1_TypedCloned ==
  /\ ClonedPopulated /\ last.kind \notin SelfClone
  /\ heap[last.id].slots["vt"] # None

\* the kinds the identity rule calls leaf or value kinds: identifier, literal,
\* single-token operator, pure marker
LeafKinds ==
  {"Name", "Int", "Bool", "Rune", "Float", "String", "Complex", "Operator",
   "LinkSpec", "ImportC", "ImportHere", "Fallthrough", "Empty"}

\* a field value w of the clone against the value v of the node: a leaf node
\* is the same instance, any other node a different one, a list is a list of
\* the same length that obeys the rule item by item
RECURSIVE IdentityRule(_, _, _)
IdentityRule(h, v, w) ==
  IF IsRef(v)
  THEN IF h[v[2]].kind \in LeafKinds THEN w = v
       ELSE IsRef(w) /\ w # v /\ h[w[2]].kind = h[v[2]].kind
  ELSE IF IsList(v)
  THEN /\ IsList(w)
       /\ Len(w[2]) = Len(v[2])
       /\ \A k \in DOMAIN v[2] : IdentityRule(h, v[2][k], w[2][k])
  ELSE TRUE

\* C2: the clone of a leaf or value node is the node itself; the clone of a
\* composite node is another instance of its kind, and each of its fields
\* obeys the identity rule against the field of the node.
C2_CloneIdentity ==
  ClonedPopulated =>
    /\ last.exc = ""
    /\ IF last.kind \in LeafKinds THEN last.val = Ref(last.id)
       ELSE /\ last.val # Ref(last.id)
            /\ heap[last.val[2]].kind = last.kind
            /\ \A n \in DOMAIN heap[last.id].slots \ (Position \cup {"vt"}) :
                 IdentityRule(heap, heap[last.id].slots[n], heap[last.val[2]].slots[n])

\* a composite node with a leaf field was cloned
C2_CompositeCloned ==
  /\ ClonedPopulated /\ last.kind \notin LeafKinds
  /\ \E n \in DOMAIN heap[last.id].slots : IsRef(heap[last.id].slots[n])

\* ---------------------------------------------- statements and their clones
\* the node kinds of the statement trees: the kinds whose clone bodies build
\* another kind, Slice with its bool-or-node field, the kinds with statement
\* fields, and what they hold
StmtKinds ==
  {"Name", "Package", "SwitchCase", "Slice", "CompoundStatement", "Label", "InitSpec"}

NewStmtNode == \E c \in StmtKinds : \E tk \in TreeTokens : New(c, tk)

\* trees of the kinds of StmtKinds, of at most MaxNodes nodes, and their clones
NextStmt ==
  \/ NewStmtNode
  \/ AssignField
  \/ CloneNode

SpecStmt == Init /\ [][NextStmt]_vars

\* the last operation cloned a composite node whose tree is populated
CompositeCloned == ClonedPopulated /\ last.kind \notin LeafKinds

\* C11: the clone of a composite node whose tree is populated succeeds and
\* is a node of the same kind, every declared field of which has a value.
C11_CloneSameKind ==
  CompositeCloned =>
    /\ last.exc = ""
    /\ heap[last.val[2]].kind = last.kind
    /\ \A f \in DeclaredFields(last.kind) :
         getattr(heap[last.val[2]], f[1]).exc = ""

\* a SwitchCase was cloned
C11_SwitchCaseCloned == CompositeCloned /\ last.kind = "SwitchCase"

\* a Package whose name is assigned was cloned
C11_PackageCloned == CompositeCloned /\ last.kind = "Package"

\* the last operation cloned a Slice
SliceCloned == ClonedPopulated /\ last.kind = "Slice"

\* C12: the clone of a Slice succeeds whatever cap holds; a cap of true,
\* false or absent is the cap of the clone, and a cap that is an Expression
\* is cloned.
C12_SliceCapCopied ==
  SliceCloned =>
    /\ last.exc = ""
    /\ LET cap == heap[last.id].slots["cap"]
           new == heap[last.val[2]].slots["cap"]
       IN  IF IsRef(cap)
           THEN IsRef(new) /\ new # cap /\ heap[new[2]].kind = heap[cap[2]].kind
           ELSE new = cap

\* a Slice whose cap is true was cloned
C12_TrueCapCloned == SliceCloned /\ heap[last.id].slots["cap"] = True

\* a Slice whose cap is false or absent was cloned, and the clone has that cap
C12_PlainCapCloned ==
  /\ SliceCloned /\ last.exc = ""
  /\ heap[last.id].slots["cap"] \in {False, None}
  /\ heap[last.val[2]].slots["cap"] = heap[last.id].slots["cap"]

\* the node n holds a statement of a list shape: as an item of its statement
\* sequence body, or as the statement body of a Label
HoldsListStatement(n) ==
  \/ /\ n.kind \in {"CompoundStatement", "SelectCase", "TypeSwitchCase"}
     /\ IsList(n.slots["body"])
     /\ \E k \in DOMAIN n.slots["body"][2] : IsList(n.slots["body"][2][k])
  \/ /\ n.kind = "Label"
     /\ IsList(n.slots["body"])

\* the last operation cloned a populated node that holds such a statement
ListStatementCloned == ClonedPopulated /\ HoldsListStatement(heap[last.id])

\* C13: the clone of a node that holds a statement of a list shape succeeds,
\* and the clone holds at the same position a list of the clones of the
\* items of that list.
C13_ListStatementCloned ==
  ListStatementCloned =>
    /\ last.exc = ""
    /\ IdentityRule(heap, heap[last.id].slots["body"], heap[last.val[2]].slots["body"])

\* a CompoundStatement whose body holds a list of InitSpec was cloned
C13_CompoundCloned ==
  /\ ListStatementCloned /\ last.kind = "CompoundStatement"
  /\ \E k \in DOMAIN heap[last.id].slots["body"][2] :
       /\ IsList(heap[last.id].slots["body"][2][k])
       /\ heap[last.id].slots["body"][2][k][2] # <<>>

\* ------------------------------------------------------ the cycle guard
\* the calls of _build a dump of the value v makes, each with the node and
\* the set of its ancestors anc on the recursion path; a node that is its
\* own ancestor is called and not descended into
RECURSIVE Calls(_, _, _)
Calls(h, v, anc) ==
  IF IsRef(v)
  THEN {<<v[2], anc>>}
       \cup (IF v[2] \in anc THEN {}
             ELSE UNION {Calls(h, h[v[2]].slots[n], anc \cup {v[2]}) :
                           n \in DOMAIN h[v[2]].slots \ (Position \cup {"vt"})})
  ELSE IF IsList(v) THEN UNION {Calls(h, v[2][k], anc) : k \in DOMAIN v[2]}
  ELSE {}

\* a mapping that renders the node n in full: its kind, vt and every field
RenderedInFull(d, n) ==
  /\ HasKey(d, "__class__")
  /\ Lookup(d, "__class__") = <<"str", n.kind>>
  /\ \A f \in DOMAIN n.slots \ Position : HasKey(d, f)

\* the last operation was a dump that completed
DumpCompleted == last.op = "dump" /\ last.exc = ""

\* C14: in a dump that completes, each call of _build finds in the path set
\* exactly the ancestors of its node on the recursion path; the set is empty
\* when the dump returns; and every occurrence of a node that is not its own
\* ancestor is rendered in full, also when the node occurs more than once.
C14_PathIsAncestors ==
  DumpCompleted =>
    /\ last.path.entered = Calls(heap, Ref(last.id), {})
    /\ last.path.ids = {}
    /\ \A o \in Occurrences(heap, last.id) :
         ~o.repeat => /\ At(last.val, o.path) # EmptyDict
                      /\ RenderedInFull(At(last.val, o.path), heap[o.id])

\* a tree was dumped in which one node occurs twice without being its own
\* ancestor
C14_Witness ==
  /\ DumpCompleted
  /\ \E o1, o2 \in Occurrences(heap, last.id) :
       /\ o1.id = o2.id /\ o1.path # o2.path
       /\ ~o1.repeat /\ ~o2.repeat

\* a tree with a cycle was dumped: a call found its own node in the set
C14_CycleWitness ==
  /\ DumpCompleted
  /\ \E e \in last.path.entered : e[1] \in e[2]
====
